---- MODULE Spec2Model ----
(***************************************************************************)
(* Model of recepten-app (src/app.py): the two-table SQLite store          *)
(* (recipes, meals), the comma-separated name-list helpers, the recipe     *)
(* query and the Streamlit button handlers that call them.                 *)
(*                                                                         *)
(* A text value is a sequence of one-character strings, "abc" being        *)
(* <<"a","b","c">>.  The character "E'" stands for U+00C9 (capital E with  *)
(* acute accent) and "e'" for U+00E9, its lower-case form: one non-ASCII   *)
(* letter pair, which Python's str.lower folds and SQLite's NOCASE and     *)
(* LIKE do not.                                                            *)
(***************************************************************************)
EXTENDS Integers, Sequences, FiniteSets, TLC

VARIABLES recipes, seq, meals, mseq, foreign_keys, err, msg, call, assigned,
          selected, csv_in, combined_likers, liked_by_value, defaults, pc,
          q, liked_filter, rows

store == <<recipes, seq, meals, mseq>>
csvVars == <<selected, csv_in, combined_likers, liked_by_value, defaults, pc>>
queryVars == <<q, liked_filter, rows>>
vars == <<recipes, seq, meals, mseq, foreign_keys, err, msg, call, assigned,
          selected, csv_in, combined_likers, liked_by_value, defaults, pc,
          q, liked_filter, rows>>

(***************************************************************************)
(* Bounds of the model.                                                    *)
(***************************************************************************)
MaxRecipes == 2
MaxMeals == 2
MaxUIRecipes == 2
MaxUIMeals == 1
MaxLen == 3

(***************************************************************************)
(* Characters.                                                             *)
(***************************************************************************)
\* The characters of the model in ascending code-point order, which is also
\* the order of their UTF-8 encodings under memcmp (SQLite's BINARY collation).
CharOrder ==
  <<" ", "%", ",", "-", "0", "1", "2", "3", "4", "5", "6", "7", "8", "9",
    "A", "B", "C", "P", "_", "a", "b", "c", "n", "o", "p", "s", "t", "E'", "e'">>

Rank(c) == CHOOSE i \in 1..Len(CharOrder) : CharOrder[i] = c

AsciiUpper == {<<"A", "a">>, <<"B", "b">>, <<"C", "c">>, <<"P", "p">>}
UnicodeUpper == AsciiUpper \cup {<<"E'", "e'">>}

\* Python's str.lower on one character: every cased letter is folded.
Lower(c) ==
  IF \E p \in UnicodeUpper : p[1] = c
  THEN (CHOOSE p \in UnicodeUpper : p[1] = c)[2] ELSE c

\* SQLite's folding (NOCASE collation, LIKE): only the 26 ASCII letters.
AsciiLower(c) ==
  IF \E p \in AsciiUpper : p[1] = c
  THEN (CHOOSE p \in AsciiUpper : p[1] = c)[2] ELSE c

IsSpace(c) == c = " "

(***************************************************************************)
(* Text helpers (Python str methods).                                      *)
(***************************************************************************)
lower(s) == [i \in 1..Len(s) |-> Lower(s[i])]

RECURSIVE lstrip(_)
lstrip(s) == IF s # <<>> /\ IsSpace(Head(s)) THEN lstrip(Tail(s)) ELSE s

RECURSIVE rstrip(_)
rstrip(s) ==
  IF s # <<>> /\ IsSpace(s[Len(s)]) THEN rstrip(SubSeq(s, 1, Len(s) - 1)) ELSE s

strip(s) == rstrip(lstrip(s))

\* s.split(","): the pieces between commas, always at least one piece.
RECURSIVE SplitAcc(_, _)
SplitAcc(s, cur) ==
  IF s = <<>> THEN <<cur>>
  ELSE IF Head(s) = "," THEN <<cur>> \o SplitAcc(Tail(s), <<>>)
  ELSE SplitAcc(Tail(s), Append(cur, Head(s)))

split(s) == SplitAcc(s, <<>>)

\* ", ".join(items)
RECURSIVE join(_)
join(items) ==
  IF items = <<>> THEN <<>>
  ELSE IF Len(items) = 1 THEN items[1]
  ELSE items[1] \o <<",", " ">> \o join(Tail(items))

NonEmpty(s) == s # <<>>

\* The pieces kept when non-blank but not stripped.
_split_csv_unstripped(csv_text) ==
  LET NonBlank(s) == strip(s) # <<>> IN SelectSeq(split(csv_text), NonBlank)

_split_csv(csv_text) ==
  LET pieces == split(csv_text)
  IN SelectSeq([i \in 1..Len(pieces) |-> strip(pieces[i])], NonEmpty)

RECURSIVE DedupeFrom(_, _, _)
DedupeFrom(items, seen, out) ==
  IF items = <<>> THEN out
  ELSE LET k == strip(Head(items))
           lk == lower(k)
       IN IF lk # <<>> /\ lk \notin seen
          THEN DedupeFrom(Tail(items), seen \cup {lk}, Append(out, k))
          ELSE DedupeFrom(Tail(items), seen, out)

\* The loop with the stripped text itself as the key of seen.
RECURSIVE DedupeExactFrom(_, _, _)
DedupeExactFrom(items, seen, out) ==
  IF items = <<>> THEN out
  ELSE LET k == strip(Head(items))
       IN IF k # <<>> /\ k \notin seen
          THEN DedupeExactFrom(Tail(items), seen \cup {k}, Append(out, k))
          ELSE DedupeExactFrom(Tail(items), seen, out)

_dedupe_exact(items) == DedupeExactFrom(items, {}, <<>>)

_dedupe_keep_order(items) == DedupeFrom(items, {}, <<>>)

(***************************************************************************)
(* Dates: datetime.date values <<year, month, day>> and their ISO text.    *)
(***************************************************************************)
DigitChars == <<"0", "1", "2", "3", "4", "5", "6", "7", "8", "9">>

RECURSIVE Decimal(_)
Decimal(n) ==
  IF n < 10 THEN <<DigitChars[n + 1]>>
  ELSE Decimal(n \div 10) \o <<DigitChars[(n % 10) + 1]>>

RECURSIVE ZeroPad(_, _)
ZeroPad(s, width) == IF Len(s) < width THEN ZeroPad(<<"0">> \o s, width) ELSE s

\* date.isoformat(): "%04d-%02d-%02d"
isoformat(d) ==
  ZeroPad(Decimal(d[1]), 4) \o <<"-">> \o ZeroPad(Decimal(d[2]), 2)
    \o <<"-">> \o ZeroPad(Decimal(d[3]), 2)

\* Chronological order of dates.
DateLess(d, e) ==
  \/ d[1] < e[1]
  \/ d[1] = e[1] /\ d[2] < e[2]
  \/ d[1] = e[1] /\ d[2] = e[2] /\ d[3] < e[3]

\* Order of TEXT values under SQLite's default BINARY collation.
RECURSIVE TextLess(_, _)
TextLess(a, b) ==
  IF b = <<>> THEN FALSE
  ELSE IF a = <<>> THEN TRUE
  ELSE IF Head(a) = Head(b) THEN TextLess(Tail(a), Tail(b))
  ELSE Rank(Head(a)) < Rank(Head(b))

(***************************************************************************)
(* The store: tables recipes and meals of recepten.db.                     *)
(*   recipes : id -> row, seq  = sqlite_sequence entry of recipes          *)
(*   meals   : id -> row, mseq = sqlite_sequence entry of meals            *)
(*   foreign_keys : whether the SQLite library enforces foreign keys on a  *)
(*     connection that never issues PRAGMA foreign_keys (the library's     *)
(*     compile-time default; OFF in a standard build)                      *)
(*   err : the exception the last store call raised, or "none"             *)
(* History, for stating properties (no code reads it):                     *)
(*   call : the operation that ran last, with the name a save handler got  *)
(*   assigned : every recipe id an INSERT has assigned so far              *)
(***************************************************************************)
Max(S) == CHOOSE m \in S : \A o \in S : o <= m

\* INTEGER PRIMARY KEY without AUTOINCREMENT: one more than the largest rowid
\* now in the table.
NextRowidOfTable(ids, everMax) == Max(ids \cup {0}) + 1

\* INTEGER PRIMARY KEY AUTOINCREMENT: one more than the largest rowid the
\* table has ever held.
NextRowid(ids, everMax) == Max(ids \cup {everMax}) + 1

Row(name, ingredients, instructions, tags, liked_by) ==
  [name |-> name, ingredients |-> ingredients, instructions |-> instructions,
   tags |-> tags, liked_by |-> liked_by]

Drop(f, S) == [k \in DOMAIN f \ S |-> f[k]]

init_db ==
  /\ recipes = <<>>
  /\ seq = 0
  /\ meals = <<>>
  /\ mseq = 0

add_recipe(name, ingredients, instructions, tags, liked_by) ==
  /\ LET id == NextRowid(DOMAIN recipes, seq)
     IN /\ recipes' = (id :> Row(name, ingredients, instructions, tags, liked_by)) @@ recipes
        /\ seq' = id
  /\ err' = "none"
  /\ UNCHANGED <<meals, mseq>>

\* The UPDATE without its WHERE clause.
update_recipe_all_rows(recipe_id, name, ingredients, instructions, tags, liked_by) ==
  /\ recipes' = [id \in DOMAIN recipes |->
                   Row(name, ingredients, instructions, tags, liked_by)]
  /\ err' = "none"
  /\ UNCHANGED <<seq, meals, mseq>>

update_recipe(recipe_id, name, ingredients, instructions, tags, liked_by) ==
  /\ recipes' = [id \in DOMAIN recipes |->
                   IF id = recipe_id
                   THEN Row(name, ingredients, instructions, tags, liked_by)
                   ELSE recipes[id]]
  /\ err' = "none"
  /\ UNCHANGED <<seq, meals, mseq>>

\* ON DELETE CASCADE acts only on a connection that enforces foreign keys.
delete_recipe(recipe_id) ==
  /\ recipes' = Drop(recipes, {recipe_id})
  /\ meals' = IF foreign_keys /\ recipe_id \in DOMAIN recipes
              THEN Drop(meals, {m \in DOMAIN meals : meals[m].recipe_id = recipe_id})
              ELSE meals
  /\ err' = "none"
  /\ UNCHANGED <<seq, mseq>>

log_meal(recipe_id, ate_on, notes) ==
  /\ IF foreign_keys /\ recipe_id \notin DOMAIN recipes
     THEN /\ err' = "IntegrityError"
          /\ UNCHANGED <<meals, mseq>>
     ELSE /\ LET id == NextRowid(DOMAIN meals, mseq)
             IN /\ meals' = (id :> [recipe_id |-> recipe_id, ate_on |-> ate_on,
                                    notes |-> notes]) @@ meals
                /\ mseq' = id
          /\ err' = "none"
  /\ UNCHANGED <<recipes, seq>>

\* The value shown when a recipe has no meal: the one-character text U+2014.
Sentinel == <<"EmDash">>

MealsOf(recipe_id) == {m \in DOMAIN meals : meals[m].recipe_id = recipe_id}

\* The second query ordered by id instead of ate_on: the row logged last.
get_meal_stats_newest_row(recipe_id) ==
  LET hit == MealsOf(recipe_id)
  IN <<Cardinality(hit), IF hit # {} THEN meals[Max(hit)].ate_on ELSE Sentinel>>

get_meal_stats(recipe_id) ==
  LET hit == MealsOf(recipe_id)
      total == Cardinality(hit)
      \* ORDER BY ate_on DESC LIMIT 1
      last == {m \in hit : \A o \in hit : ~TextLess(meals[m].ate_on, meals[o].ate_on)}
  IN <<total, IF last # {} THEN meals[CHOOSE m \in last : TRUE].ate_on ELSE Sentinel>>

(***************************************************************************)
(* Spec: the store's operations called directly, with any arguments.       *)
(***************************************************************************)
Ids == 1..MaxRecipes

RecipeInputs ==
  { Row(<<"A">>, <<"a">>, <<"b">>, <<"c">>, <<"A", "n", "a">>),
    Row(<<>>, <<"p">>, <<>>, <<"t">>, <<>>) }

Dates == {<<2024, 1, 1>>, <<2024, 3, 5>>, <<2024, 10, 1>>}

AteOn == {isoformat(d) : d \in Dates}

Notes == {<<>>}

History(op, name) ==
  /\ call' = [op |-> op, name |-> name]
  /\ assigned' = assigned \cup DOMAIN recipes'
  /\ UNCHANGED <<csvVars, queryVars, foreign_keys>>

Called(op) == History(op, <<>>) /\ UNCHANGED msg

Fresh ==
  /\ init_db
  /\ foreign_keys \in BOOLEAN
  /\ err = "none"
  /\ msg = "none"
  /\ call = [op |-> "init_db", name |-> <<>>]
  /\ assigned = {}
  /\ q = <<>> /\ liked_filter = <<>> /\ rows = <<>>

Init ==
  /\ Fresh
  /\ selected = <<>> /\ csv_in = <<>>
  /\ combined_likers = <<>> /\ liked_by_value = <<>> /\ defaults = <<>>
  /\ pc = "idle"

AddRecipe ==
  \E r \in RecipeInputs :
    /\ seq < MaxRecipes
    /\ add_recipe(r.name, r.ingredients, r.instructions, r.tags, r.liked_by)
    /\ Called("add_recipe")

UpdateRecipe ==
  \E id \in Ids, r \in RecipeInputs :
    /\ update_recipe(id, r.name, r.ingredients, r.instructions, r.tags, r.liked_by)
    /\ Called("update_recipe")

DeleteRecipe == \E id \in Ids : delete_recipe(id) /\ Called("delete_recipe")

LogMeal ==
  \E id \in Ids, d \in AteOn, n \in Notes :
    /\ mseq < MaxMeals
    /\ log_meal(id, d, n)
    /\ Called("log_meal")

Next == AddRecipe \/ UpdateRecipe \/ DeleteRecipe \/ LogMeal

Spec == Init /\ [][Next]_vars

(***************************************************************************)
(* SpecGuarded: the same operations, log_meal being called only with the   *)
(* id of a recipe in the store, as the "Log eetmoment" button does.        *)
(***************************************************************************)
LogMealOfListed ==
  \E id \in DOMAIN recipes, d \in AteOn, n \in Notes :
    /\ mseq < MaxMeals
    /\ log_meal(id, d, n)
    /\ Called("log_meal")

NextGuarded == AddRecipe \/ UpdateRecipe \/ DeleteRecipe \/ LogMealOfListed

SpecGuarded == Init /\ [][NextGuarded]_vars

(***************************************************************************)
(* SpecUI: the Streamlit page.  Each action is one button press with the   *)
(* widget values it reads; msg is the st.success / st.warning text shown.  *)
(***************************************************************************)
Ana == <<"A", "n", "a">>
ana == <<"a", "n", "a">>
Bob == <<"B", "o", "b">>

\* The names the two multiselects offer.  The code returns them sorted by
\* lower-case form; the order decides only how the options are displayed.
get_all_likers ==
  UNION {{_split_csv(recipes[id].liked_by)[i] :
            i \in 1..Len(_split_csv(recipes[id].liked_by))} :
         id \in {r \in DOMAIN recipes : strip(recipes[r].liked_by) # <<>>}}

\* What a multiselect can return: chosen options, each once, in the order chosen.
Selections(options) ==
  UNION {{s \in [1..n -> options] : \A i, j \in 1..n : s[i] = s[j] => i = j} :
         n \in 0..Cardinality(options)}

\* combined_likers and liked_by_value of both save handlers.
LikedByValue(selected_names, new_likers_csv) ==
  join(_dedupe_keep_order(selected_names \o _split_csv(new_likers_csv)))

\* The body of "Opslaan" when the name check is left out.
on_save_new_unchecked(r_name, r_ingredients, r_instructions, r_tags, selected_names, new_likers_csv) ==
  /\ add_recipe(strip(r_name), strip(r_ingredients), strip(r_instructions),
                strip(r_tags), LikedByValue(selected_names, new_likers_csv))
  /\ msg' = "Recept opgeslagen."

on_save_new(r_name, r_ingredients, r_instructions, r_tags, selected_names, new_likers_csv) ==
  IF strip(r_name) # <<>>
  THEN /\ add_recipe(strip(r_name), strip(r_ingredients), strip(r_instructions),
                     strip(r_tags), LikedByValue(selected_names, new_likers_csv))
       /\ msg' = "Recept opgeslagen."
  ELSE /\ msg' = "Naam is verplicht."
       /\ UNCHANGED <<store, err>>

on_save_edit(rid, new_name, new_ing, new_instr, new_tags, selected_names, new_likers_csv) ==
  /\ update_recipe(rid, strip(new_name), strip(new_ing), strip(new_instr),
                   strip(new_tags), LikedByValue(selected_names, new_likers_csv))
  /\ msg' = "Recept bijgewerkt."

on_log(rid, ate_on, note) ==
  /\ log_meal(rid, isoformat(ate_on), strip(note))
  /\ msg' = "Eetmoment toegevoegd."

on_delete(rid) ==
  /\ delete_recipe(rid)
  /\ msg' = "Recept verwijderd."

UINames == {<<" ">>, <<" ", "A">>}
UIBodies == {<<<<" ", "p">>, <<"s", " ">>, <<" ", "t", " ">>>>}
UITyped == {<<>>, ana, Ana}
UIDates == {<<2024, 3, 5>>}
UINotes == {<<" ">>}

SaveNew ==
  \E n \in UINames, b \in UIBodies, sel \in Selections(get_all_likers), csv \in UITyped :
    /\ seq < MaxUIRecipes
    /\ on_save_new(n, b[1], b[2], b[3], sel, csv)
    /\ History("save_new", n)

SaveEdit ==
  \E rid \in DOMAIN recipes, n \in UINames, b \in UIBodies,
     sel \in Selections(get_all_likers), csv \in UITyped :
    /\ on_save_edit(rid, n, b[1], b[2], b[3], sel, csv)
    /\ History("save_edit", n)

LogButton ==
  \E rid \in DOMAIN recipes, d \in UIDates, n \in UINotes :
    /\ mseq < MaxUIMeals
    /\ on_log(rid, d, n)
    /\ History("log", <<>>)

DeleteButton == \E rid \in DOMAIN recipes : on_delete(rid) /\ History("delete", <<>>)

NextUI == SaveNew \/ SaveEdit \/ LogButton \/ DeleteButton

SpecUI == Init /\ [][NextUI]_vars


(***************************************************************************)
(* SpecCsv: the liked-by text of a save, from the widget values to the     *)
(* stored text and back to the default selection of the edit form.         *)
(*   selected, csv_in : what the multiselect and the text input hold       *)
(*   combined_likers, liked_by_value : the handler's locals of those names *)
(*   defaults : _split_csv(liked_by), the edit form's preselected names    *)
(***************************************************************************)
Alphabet == {"a", "A", "b", ",", " "}

Texts(n) == UNION {[1..k -> Alphabet] : k \in 0..n}

\* Offered names are pieces _split_csv produced: stripped, non-empty, comma-free.
CsvNames == {<<"a">>, <<"A">>, <<"b">>}

InitCsv ==
  /\ Fresh
  /\ selected \in Selections(CsvNames)
  /\ csv_in \in Texts(MaxLen)
  /\ combined_likers = <<>> /\ liked_by_value = <<>> /\ defaults = <<>>
  /\ pc = "input"

Combine ==
  /\ pc = "input"
  /\ combined_likers' = _dedupe_keep_order(selected \o _split_csv(csv_in))
  /\ liked_by_value' = LikedByValue(selected, csv_in)
  /\ pc' = "stored"
  /\ UNCHANGED <<store, foreign_keys, err, msg, call, assigned, selected, csv_in,
                 defaults, queryVars>>

ReadBack ==
  /\ pc = "stored"
  /\ defaults' = _split_csv(liked_by_value)
  /\ pc' = "read"
  /\ UNCHANGED <<store, foreign_keys, err, msg, call, assigned, selected, csv_in,
                 combined_likers, liked_by_value, queryVars>>

NextCsv == Combine \/ ReadBack

SpecCsv == InitCsv /\ [][NextCsv]_vars

(***************************************************************************)
(* SpecQuery: recipes are added, then listed with the two filters.         *)
(*   q, liked_filter : the filter texts of the last get_recipes call       *)
(*   rows : the ids of the rows it returned, in the order returned         *)
(***************************************************************************)
\* SQLite's LIKE without ESCAPE: % is any run of characters, _ any one
\* character, every other character itself, ASCII letters without case.
RECURSIVE Like(_, _)
Like(pattern, text) ==
  IF pattern = <<>> THEN text = <<>>
  ELSE IF Head(pattern) = "%"
       THEN \E k \in 0..Len(text) : Like(Tail(pattern), SubSeq(text, k + 1, Len(text)))
  ELSE IF text = <<>> THEN FALSE
  ELSE IF Head(pattern) = "_" THEN Like(Tail(pattern), Tail(text))
  ELSE /\ AsciiLower(Head(pattern)) = AsciiLower(Head(text))
       /\ Like(Tail(pattern), Tail(text))

\* Order of TEXT values under COLLATE NOCASE.
RECURSIVE NocaseLess(_, _)
NocaseLess(a, b) ==
  IF b = <<>> THEN FALSE
  ELSE IF a = <<>> THEN TRUE
  ELSE IF AsciiLower(Head(a)) = AsciiLower(Head(b)) THEN NocaseLess(Tail(a), Tail(b))
  ELSE Rank(AsciiLower(Head(a))) < Rank(AsciiLower(Head(b)))

\* The WHERE clause with its terms joined by OR.
WhereAny(row, query, filter) ==
  LET pat == <<"%">> \o query \o <<"%">>
      fpat == <<"%">> \o filter \o <<"%">>
  IN (query = <<>> /\ filter = <<>>)
     \/ (query # <<>> /\ (\/ Like(pat, row.name) \/ Like(pat, row.ingredients)
                          \/ Like(pat, row.instructions) \/ Like(pat, row.tags)))
     \/ (filter # <<>> /\ Like(fpat, row.liked_by))

\* The WHERE clause get_recipes builds: one term per non-empty filter, AND-ed.
Where(row, query, filter) ==
  LET pat == <<"%">> \o query \o <<"%">>
      fpat == <<"%">> \o filter \o <<"%">>
  IN /\ query # <<>> => (\/ Like(pat, row.name) \/ Like(pat, row.ingredients)
                         \/ Like(pat, row.instructions) \/ Like(pat, row.tags))
     /\ filter # <<>> => Like(fpat, row.liked_by)

\* The result is the selected rows in an order ORDER BY name COLLATE NOCASE ASC
\* allows; rows whose names compare equal come in any order.
get_recipes(query, filter) ==
  LET hit == {id \in DOMAIN recipes : Where(recipes[id], query, filter)}
  IN /\ rows' \in {r \in [1..Cardinality(hit) -> hit] :
                     /\ \A i, j \in DOMAIN r : r[i] = r[j] => i = j
                     /\ \A i, j \in DOMAIN r :
                          i < j => ~NocaseLess(recipes[r[j]].name, recipes[r[i]].name)}
     /\ q' = query
     /\ liked_filter' = filter

pasta == <<"p", "a", "s", "t", "a">>

QueryInputs ==
  { Row(<<"B">>, pasta, <<>>, <<>>, Ana),
    Row(<<"a">>, <<>>, <<"s">>, <<"a", "_", "b">>, <<>>),
    Row(<<"b">>, <<>>, <<>>, <<"c">>, Bob \o <<",", " ">> \o ana),
    Row(<<"e'">>, <<>>, <<>>, <<>>, <<"%">>) }

Queries == {<<>>, <<"P", "A", "S", "T">>, <<"_">>, <<"E'">>, <<"b">>}
LikedFilters == {<<>>, ana, <<"%">>}

AddListed ==
  \E r \in QueryInputs :
    /\ seq < MaxRecipes
    /\ add_recipe(r.name, r.ingredients, r.instructions, r.tags, r.liked_by)
    /\ call' = [op |-> "add_recipe", name |-> <<>>]
    /\ assigned' = assigned \cup DOMAIN recipes'
    /\ UNCHANGED <<msg, csvVars, queryVars, foreign_keys>>

ListRecipes ==
  \E query \in Queries, filter \in LikedFilters :
    /\ get_recipes(query, filter)
    /\ call' = [op |-> "get_recipes", name |-> <<>>]
    /\ UNCHANGED <<store, foreign_keys, err, msg, assigned, csvVars>>

NextQuery == AddListed \/ ListRecipes

SpecQuery == Init /\ [][NextQuery]_vars

(***************************************************************************)
(* Claims on the store.                                                    *)
(***************************************************************************)
\* C1: deleting a recipe of the store leaves no meal row whose recipe_id is
\* the deleted id, so get_meal_stats of that id counts 0.
C1_DeleteRemovesMeals ==
  [][\A id \in DOMAIN recipes :
       delete_recipe(id) => (MealsOf(id)' = {} /\ get_meal_stats(id)'[1] = 0)]_vars

\* C2: log_meal with an id that is no recipe's id raises an error and leaves
\* both tables as they were.
C2_LogMealUnknownIdFails ==
  [][\A id \in Ids, d \in AteOn, n \in Notes :
       (id \notin DOMAIN recipes /\ log_meal(id, d, n))
         => (err' # "none" /\ meals' = meals /\ recipes' = recipes)]_vars

\* C5: update_recipe(id, ...) replaces the five fields of the row with that id
\* and nothing else: the set of ids, every other row, the meals and both
\* sequence counters stay, no error is raised, and with no such row the store
\* is unchanged.
C5_UpdateFrame ==
  [][\A id \in Ids, r \in RecipeInputs :
       update_recipe(id, r.name, r.ingredients, r.instructions, r.tags, r.liked_by)
         => /\ DOMAIN recipes' = DOMAIN recipes
            /\ \A o \in DOMAIN recipes : o # id => recipes'[o] = recipes[o]
            /\ id \in DOMAIN recipes => recipes'[id] = r
            /\ id \notin DOMAIN recipes => recipes' = recipes
            /\ meals' = meals /\ seq' = seq /\ mseq' = mseq
            /\ err' = "none"]_vars

C5_Witness ==
  /\ call.op = "update_recipe"
  /\ DOMAIN recipes = {1, 2}
  /\ recipes[1] # recipes[2]
  /\ meals # <<>>

\* C6: get_meal_stats(id) is (count, lastDate): count the number of meal rows
\* of that recipe, lastDate the ISO text of the chronologically latest date
\* among them, or the sentinel when there is none.
DateOf(text) == CHOOSE d \in Dates : isoformat(d) = text

C6_MealStats ==
  \A id \in Ids :
    LET st == get_meal_stats(id)
        rowsOf == {m \in DOMAIN meals : meals[m].recipe_id = id}
    IN /\ st[1] = Cardinality(rowsOf)
       /\ rowsOf = {} => st[2] = Sentinel
       /\ rowsOf # {} =>
            /\ \E m \in rowsOf : meals[m].ate_on = st[2]
            /\ \A m \in rowsOf : ~DateLess(DateOf(st[2]), DateOf(meals[m].ate_on))

C6_Witness ==
  /\ DOMAIN meals = {1, 2}
  /\ meals[1].recipe_id = 1 /\ meals[1].ate_on = isoformat(<<2024, 3, 5>>)
  /\ meals[2].recipe_id = 1 /\ meals[2].ate_on = isoformat(<<2024, 1, 1>>)
  /\ get_meal_stats(1) = <<2, <<"2", "0", "2", "4", "-", "0", "3", "-", "0", "5">> >>
  /\ get_meal_stats(2) = <<0, Sentinel>>

\* C10: an added recipe gets an id no INSERT has assigned before, deleted
\* recipes' ids included, and so starts with the stats (0, sentinel).
C10_IdsNeverReused ==
  [][\A r \in RecipeInputs :
       add_recipe(r.name, r.ingredients, r.instructions, r.tags, r.liked_by)
         => \A id \in DOMAIN recipes' \ DOMAIN recipes :
              id \notin assigned /\ get_meal_stats(id)' = <<0, Sentinel>>]_vars

\* A recipe was added after an earlier one was deleted while its meals stayed.
C10_Witness ==
  /\ call.op = "add_recipe"
  /\ \E m \in DOMAIN meals : meals[m].recipe_id \notin DOMAIN recipes
  /\ seq \in DOMAIN recipes
  /\ get_meal_stats(seq) = <<0, Sentinel>>

(***************************************************************************)
(* Claims on the page's save handlers.                                     *)
(***************************************************************************)
\* C3: every recipe row has a name that is non-empty after trimming.
C3_NameNeverBlank == \A id \in DOMAIN recipes : strip(recipes[id].name) # <<>>

\* C4: "Opslaan" with a name that is empty after trimming inserts nothing:
\* both tables and both sequence counters are as before.
C4_BlankNameRejected ==
  [][(call'.op = "save_new" /\ strip(call'.name) = <<>>)
       => (recipes' = recipes /\ seq' = seq /\ meals' = meals /\ mseq' = mseq)]_vars

C4_Witness ==
  /\ call.op = "save_new"
  /\ call.name = <<" ">>
  /\ msg = "Naam is verplicht."
  /\ DOMAIN recipes # {}

(***************************************************************************)
(* Claims on the name lists.                                               *)
(***************************************************************************)
Key(x) == lower(strip(x))

\* The places of items that hold the first occurrence of a non-empty key.
Firsts(items) ==
  {i \in 1..Len(items) :
     Key(items[i]) # <<>> /\ \A j \in 1..(i - 1) : Key(items[j]) # Key(items[i])}

\* C8: the saved list is the first occurrences of selected ++ typed names in
\* their order and casing, one per lower-case trimmed key, empties skipped; a
\* typed name whose key a selected name has leaves the selected casing; the
\* stored text is that list joined with ", ".
C8_SavedLikers ==
  pc # "input" =>
    LET items == selected \o _split_csv(csv_in)
        F == Firsts(items)
        L == combined_likers
    IN /\ Len(L) = Cardinality(F)
       /\ \A k \in 1..Len(L) :
            \E i \in F : Cardinality({j \in F : j < i}) = k - 1 /\ L[k] = strip(items[i])
       /\ \A i \in 1..Len(selected) :
            \A k \in 1..Len(L) :
              Key(L[k]) = Key(selected[i]) => \E j \in 1..Len(selected) : L[k] = selected[j]
       /\ liked_by_value = join(L)

C8_Witness ==
  /\ pc = "stored"
  /\ selected = <<<<"A">>>>
  /\ csv_in = <<"a", ",", "b">>
  /\ combined_likers = <<<<"A">>, <<"b">>>>
  /\ liked_by_value = <<"A", ",", " ", "b">>

\* C9: reading the stored text back with _split_csv gives the list that was
\* joined into it.
C9_RoundTrip == pc = "read" => defaults = combined_likers

C9_Witness ==
  /\ pc = "read"
  /\ selected = <<>>
  /\ csv_in = <<" ", "b", ",">>
  /\ defaults = <<<<"b">>>>

(***************************************************************************)
(* Claims on the recipe list.                                              *)
(***************************************************************************)
Contains(sub, text) ==
  \E k \in 0..(Len(text) - Len(sub)) : SubSeq(text, k + 1, k + Len(sub)) = sub

Range(s) == {s[i] : i \in DOMAIN s}

\* C7: the result holds exactly the recipes that pass every non-empty filter
\* (the text query a substring, without regard to case, of name, ingredients,
\* instructions or tags; the liked filter a substring of liked_by), each once,
\* in ascending order of name without regard to case.
C7_ListRecipesExact ==
  call.op = "get_recipes" =>
    LET InText(id) ==
          \/ Contains(lower(q), lower(recipes[id].name))
          \/ Contains(lower(q), lower(recipes[id].ingredients))
          \/ Contains(lower(q), lower(recipes[id].instructions))
          \/ Contains(lower(q), lower(recipes[id].tags))
        want == {id \in DOMAIN recipes :
                   /\ q # <<>> => InText(id)
                   /\ liked_filter # <<>> => Contains(liked_filter, recipes[id].liked_by)}
    IN /\ Range(rows) = want
       /\ Len(rows) = Cardinality(want)
       /\ \A i, j \in DOMAIN rows :
            i < j => ~TextLess(lower(recipes[rows[j]].name), lower(recipes[rows[i]].name))

AsciiFold(s) == [i \in 1..Len(s) |-> AsciiLower(s[i])]

NoWildcard(s) == \A i \in DOMAIN s : s[i] \notin {"%", "_"}

\* C7 as amended: for filters holding neither % nor _, with case disregarded
\* for ASCII letters only, in the liked filter as in the text query.
C7_ListRecipesNoWildcard ==
  (call.op = "get_recipes" /\ NoWildcard(q) /\ NoWildcard(liked_filter)) =>
    LET InText(id) ==
          \/ Contains(AsciiFold(q), AsciiFold(recipes[id].name))
          \/ Contains(AsciiFold(q), AsciiFold(recipes[id].ingredients))
          \/ Contains(AsciiFold(q), AsciiFold(recipes[id].instructions))
          \/ Contains(AsciiFold(q), AsciiFold(recipes[id].tags))
        want == {id \in DOMAIN recipes :
                   /\ q # <<>> => InText(id)
                   /\ liked_filter # <<>> =>
                        Contains(AsciiFold(liked_filter), AsciiFold(recipes[id].liked_by))}
    IN /\ Range(rows) = want
       /\ Len(rows) = Cardinality(want)
       /\ \A i, j \in DOMAIN rows :
            i < j => ~TextLess(AsciiFold(recipes[rows[j]].name),
                               AsciiFold(recipes[rows[i]].name))

\* "b" finds the recipe named "B" and the one tagged "a_b", listed a before B.
C7_Witness ==
  /\ call.op = "get_recipes"
  /\ q = <<"b">> /\ liked_filter = <<>>
  /\ DOMAIN recipes = {1, 2}
  /\ recipes[1].name = <<"B">> /\ recipes[2].name = <<"a">>
  /\ rows = <<2, 1>>

====
